---- MODULE Spec2Model ----
(***************************************************************************)
(* Model of sqlalchemy_continuum/table_builder.py: TableBuilder, which     *)
(* derives a version table from a parent table and versioning options.     *)
(*                                                                         *)
(* A column is a record of the attributes the builder reads or writes.     *)
(* A catalog (MetaData) maps table names to ordered column collections.    *)
(* A table name is a sequence of string tokens, so that the '%' name       *)
(* substitution is computed and not assumed.                               *)
(***************************************************************************)
EXTENDS Integers, Sequences, FiniteSets, TLC

\* Bound on the number of build calls explored in one behaviour.
MaxBuilds == 2

None == "None"
InvalidRequestError == "InvalidRequestError"

Threads == {1, 2}
Metadatas == {"m1", "m2"}

VARIABLES
    options,    \* manager.options: the global versioning options
    versioned,  \* the model's own option overrides (model-scoped lookup)
    policy,     \* column names for which manager.is_excluded_column holds
    tables,     \* tables[m]: the tables registered in catalog m, by name
    pc,         \* pc[t]: position of build call t inside __call__
    builder,    \* builder[t]: the TableBuilder's parent_table and model
    extends,    \* extends[t]: the argument of __call__ (None or a table name)
    columns,    \* columns[t]: the local list `columns` of __call__
    result,     \* result[t]: the returned table's name, or the error raised
    found,      \* found[t]: what the catalog lookup of the registration saw
    nbuilds,    \* number of build calls started
    hookCalls,  \* hookCalls[t]: hook invocations during the current call
    added,      \* added[t]: the columns the hook appended in the current call
    before,     \* before[t]: the catalogs as they were when the call started
    rstore,     \* reflect_column harness: the column objects (src, cpy)
    rref,       \* reflect_column harness: the returned reference, or None
    rin         \* reflect_column harness: [column, model] given to the call

vars == <<options, versioned, policy, tables, pc, builder, extends, columns,
          result, found, nbuilds, hookCalls, added, before, rstore, rref,
          rin>>

----------------------------------------------------------------------------
(* Columns *)

\* sa.Column(name, type, primary_key=...): the attribute defaults of a new
\* column; nullable defaults to "not primary_key", autoincrement to "auto".
Column(name, type, primary_key) ==
    [name |-> name, key |-> name, type |-> type, nullable |-> ~primary_key,
     primary_key |-> primary_key, autoincrement |-> "auto", unique |-> FALSE,
     onupdate |-> None, index |-> FALSE]

\* Python truth value of an autoincrement setting (True, "auto", False).
Truthy(v) == v \notin {"false", None}

----------------------------------------------------------------------------
(* Options *)

\* manager.option(model, name) raises TypeError when no model is given.
ManagerOptionRaises(model) == model = None

\* manager.option(model, name): the model's own value when it has one (None
\* stands for an option the model does not set), else the global one.
ManagerOption(model, name) ==
    IF name \in DOMAIN versioned /\ versioned[name] # None
    THEN versioned[name]
    ELSE options[name]

\* TableBuilder.option
Option(model, name) ==
    IF ManagerOptionRaises(model) THEN options[name]
    ELSE ManagerOption(model, name)

----------------------------------------------------------------------------
(* Naming *)

RECURSIVE Format(_, _)
\* template % name, for a template of literal tokens and '%s' slots.
Format(template, name) ==
    IF template = <<>> THEN <<>>
    ELSE (IF Head(template) = "%s" THEN name ELSE <<Head(template)>>)
         \o Format(Tail(template), name)

\* TableBuilder.table_name
TableName(parent_table, model) ==
    Format(Option(model, "table_name"), parent_table.name)

----------------------------------------------------------------------------
(* Column reflection *)

\* sa.inspect(model).columns.items(): the (key, column) pairs of the mapped
\* entity, in iteration order.  The entity maps 'amount' under the
\* attribute key 'total'; 'created_at' is not mapped.
ModelColumns(model) ==
    <<[key |-> "id", column |-> "id"],
      [key |-> "total", column |-> "amount"],
      [key |-> "transaction_id", column |-> "transaction_id"]>>

\* manager.is_excluded_column(model, column)
IsExcludedColumn(model, column) == column.name \in policy

\* A reflect_column that alters the parent's column itself.
ColumnCopyAliased == "src"

\* The object column.copy() returns: a new object ("cpy"), not the source
\* column itself ("src").
ColumnCopy == "cpy"

RECURSIVE FindKey(_, _, _, _)
\* for key, value in items: if value is column: column_copy.key = key
FindKey(items, column, store, ref) ==
    IF items = <<>> THEN store
    ELSE FindKey(Tail(items), column,
                 IF Head(items).column = column.name
                 THEN [store EXCEPT ![ref].key = Head(items).key]
                 ELSE store,
                 ref)

\* TableBuilder.reflect_column, on a store of the two column objects it
\* touches: src, the parent's column, and cpy, the copy.  Returns the store
\* after the call and the reference returned.
ReflectColumn(column, model) ==
    LET s0 == [src |-> column, cpy |-> column]
        column_copy == ColumnCopy
        s1 == [s0 EXCEPT ![column_copy].unique = FALSE]
        s2 == [s1 EXCEPT ![column_copy].onupdate = None]
        s3 == IF Truthy(s2[column_copy].autoincrement)
              THEN [s2 EXCEPT ![column_copy].autoincrement = "false"]
              ELSE s2
        s4 == IF s3[column_copy].name = Option(model, "transaction_column_name")
              THEN [s3 EXCEPT ![column_copy].nullable = FALSE]
              ELSE s3
        s5 == IF ~s4[column_copy].primary_key
              THEN [s4 EXCEPT ![column_copy].nullable = TRUE]
              ELSE s4
        s6 == IF model # None
              THEN FindKey(ModelColumns(model), column, s5, column_copy)
              ELSE s5
    IN  [store |-> s6, ref |-> column_copy]

\* The column object reflect_column returns.
Reflected(column, model) ==
    LET r == ReflectColumn(column, model) IN r.store[r.ref]

----------------------------------------------------------------------------
(* Column set assembly *)

\* A parent_columns that tests the exclude option whether or not a model is
\* given.
SkippedByOptionOnly(column, model) == column.name \in options.exclude

\* Whether parent_columns skips the column.
Skipped(column, model) ==
    \/ model # None /\ IsExcludedColumn(model, column)
    \/ model = None /\ column.name \in options.exclude

\* TableBuilder.parent_columns
ParentColumns(parent_table, model) ==
    SelectSeq(parent_table.c, LAMBDA column : ~Skipped(column, model))

\* TableBuilder.reflected_columns
ReflectedColumns(parent_table, model) ==
    LET parent_columns == ParentColumns(parent_table, model)
        cols == [i \in DOMAIN parent_columns |->
                    Reflected(parent_columns[i], model)]
        transaction_column_name == Option(model, "transaction_column_name")
    IN  IF transaction_column_name \notin {cols[i].key : i \in DOMAIN cols}
        THEN Append(cols, Column(transaction_column_name, "BigInteger", FALSE))
        ELSE cols

\* TableBuilder.operation_type_column
OperationTypeColumn(model) ==
    [Column(Option(model, "operation_type_column_name"), "SmallInteger", FALSE)
        EXCEPT !.nullable = FALSE, !.index = TRUE]

\* TableBuilder.transaction_column
TransactionColumn(model) ==
    [Column(Option(model, "transaction_column_name"), "BigInteger", TRUE)
        EXCEPT !.index = TRUE, !.autoincrement = "false"]

\* TableBuilder.end_transaction_column
EndTransactionColumn(model) ==
    [Column(Option(model, "end_transaction_column_name"), "BigInteger", FALSE)
        EXCEPT !.index = TRUE]

\* A columns that appends the end-transaction column under any strategy.
AppendsEndTransactionAlways(model) == TRUE

\* Whether columns appends the end-transaction column.
AppendsEndTransaction(model) == Option(model, "strategy") = "validity"

\* TableBuilder.columns
Columns(parent_table, model) ==
    LET data == ReflectedColumns(parent_table, model)
        d1 == Append(data, TransactionColumn(model))
        d2 == IF AppendsEndTransaction(model)
              THEN Append(d1, EndTransactionColumn(model))
              ELSE d1
    IN  Append(d2, OperationTypeColumn(model))

----------------------------------------------------------------------------
(* The catalog: sa.schema.Table(name, metadata, *columns, extend_existing) *)

NoTable == <<>>
NoResult == [raised |-> None, table |-> NoTable]

\* A table's column collection is keyed: a column whose key is already
\* present replaces the one that has it, in place; another is appended.
AddColumn(cols, col) ==
    IF \E i \in DOMAIN cols : cols[i].key = col.key
    THEN [i \in DOMAIN cols |-> IF cols[i].key = col.key THEN col ELSE cols[i]]
    ELSE Append(cols, col)

RECURSIVE AddColumns(_, _)
AddColumns(cols, args) ==
    IF args = <<>> THEN cols
    ELSE AddColumns(AddColumn(cols, Head(args)), Tail(args))

Put(catalog, name, cols) ==
    [n \in DOMAIN catalog \cup {name} |-> IF n = name THEN cols ELSE catalog[n]]

\* Table(...), given what the lookup of name in the catalog saw (exists):
\* an existing table is returned, extended when extend_existing is set, and
\* it is an error to give columns for it otherwise; a new table is stored
\* under its name.
Table(catalog, exists, name, args, extend_existing) ==
    IF exists
    THEN IF ~extend_existing /\ args # <<>>
         THEN [tables |-> catalog,
               result |-> [raised |-> InvalidRequestError, table |-> NoTable]]
         ELSE IF extend_existing
         THEN [tables |-> [catalog EXCEPT ![name] = AddColumns(@, args)],
               result |-> [raised |-> None, table |-> name]]
         ELSE [tables |-> catalog, result |-> [raised |-> None, table |-> name]]
    ELSE [tables |-> Put(catalog, name, AddColumns(<<>>, args)),
          result |-> [raised |-> None, table |-> name]]

----------------------------------------------------------------------------
(* Inputs *)

\* A parent table's column.
ParentColumn(name, primary_key, nullable, unique, onupdate) ==
    [Column(name, "Integer", primary_key)
        EXCEPT !.nullable = nullable, !.unique = unique, !.onupdate = onupdate]

\* The parent tables a builder is constructed for: a plain table, a second
\* table of the same catalog, and a table of the same name in another
\* catalog that carries a transaction column of its own.
ParentTables ==
    [invoice |->
        [name |-> <<"invoice">>, metadata |-> "m1",
         c |-> <<ParentColumn("id", TRUE, FALSE, FALSE, None),
                 ParentColumn("amount", FALSE, FALSE, TRUE, None),
                 ParentColumn("created_at", FALSE, TRUE, FALSE, "now")>>],
     article |->
        [name |-> <<"article">>, metadata |-> "m1",
         c |-> <<ParentColumn("id", TRUE, FALSE, FALSE, None),
                 ParentColumn("created_at", FALSE, FALSE, FALSE, None)>>],
     ledger |->
        [name |-> <<"invoice">>, metadata |-> "m2",
         c |-> <<ParentColumn("transaction_id", TRUE, FALSE, TRUE, None),
                 ParentColumn("amount", FALSE, TRUE, FALSE, None)>>]]

Models == {None, "Invoice"}

\* The option sets explored.
OptionSets ==
    [table_name : {<<"%s", "_version">>, <<"v_", "%s">>},
     transaction_column_name : {"transaction_id"},
     end_transaction_column_name : {"end_transaction_id"},
     operation_type_column_name : {"operation_type"},
     exclude : {{}, {"created_at"}},
     strategy : {"flat", "validity"}]

\* The model's own options: none, or a strategy of its own.
VersionedSets == [strategy : {None, "validity"}]

\* The sets of column names the exclusion policy of the manager excludes.
PolicySets == {{"amount"}, {"transaction_id"}}

\* What a plugin's after_build_version_table_columns does to the list:
\* it appends columns of its own and may alter the last column it was given.
PluginColumn(name) == Column(name, "Boolean", FALSE)

HookEffects ==
    {[add |-> <<>>, alter |-> FALSE],
     [add |-> <<PluginColumn("amount_mod")>>, alter |-> TRUE]}

Altered(cols) ==
    IF cols = <<>> THEN cols
    ELSE [cols EXCEPT ![Len(cols)].type = "Integer"]

\* Every column reflect_column may be given.
AllColumns ==
    {c \in [name : {"transaction_id", "amount"},
            key : {"transaction_id", "amount"},
            type : {"Integer"},
            nullable : BOOLEAN,
            primary_key : BOOLEAN,
            autoincrement : {"auto", "true", "false"},
            unique : BOOLEAN,
            onupdate : {None, "now"},
            index : BOOLEAN] : c.key = c.name}

----------------------------------------------------------------------------
(* State machine *)

IdleHarness ==
    /\ rin = [column |-> ParentTables.invoice.c[1], model |-> None]
    /\ rstore = [src |-> rin.column, cpy |-> rin.column]
    /\ rref = "done"

NoBuilds ==
    /\ tables = [m \in Metadatas |-> <<>>]
    /\ pc = [t \in Threads |-> "idle"]
    /\ builder = [t \in Threads |-> [parent |-> "invoice", model |-> None]]
    /\ extends = [t \in Threads |-> NoTable]
    /\ columns = [t \in Threads |-> <<>>]
    /\ result = [t \in Threads |-> NoResult]
    /\ found = [t \in Threads |-> FALSE]
    /\ nbuilds = 0
    /\ hookCalls = [t \in Threads |-> 0]
    /\ added = [t \in Threads |-> <<>>]
    /\ before = [t \in Threads |-> tables]

Init ==
    /\ options \in OptionSets
    /\ versioned \in VersionedSets
    /\ policy \in PolicySets
    /\ NoBuilds
    /\ IdleHarness

harness == <<rstore, rref, rin>>
config == <<options, versioned, policy>>

ParentOf(t) == ParentTables[builder[t].parent]

\* TableBuilder(manager, parent_table, model)(extends): the call starts.
\* extends is None (NoTable) or a table of the parent's catalog.
Construct(t, p, m, e) ==
    /\ pc[t] \in {"idle", "done"}
    /\ nbuilds < MaxBuilds
    /\ e = NoTable \/ e \in DOMAIN tables[ParentTables[p].metadata]
    /\ builder' = [builder EXCEPT ![t] = [parent |-> p, model |-> m]]
    /\ extends' = [extends EXCEPT ![t] = e]
    /\ columns' = [columns EXCEPT ![t] = <<>>]
    /\ result' = [result EXCEPT ![t] = NoResult]
    /\ found' = [found EXCEPT ![t] = FALSE]
    /\ hookCalls' = [hookCalls EXCEPT ![t] = 0]
    /\ added' = [added EXCEPT ![t] = <<>>]
    /\ before' = [before EXCEPT ![t] = tables]
    /\ nbuilds' = nbuilds + 1
    /\ pc' = [pc EXCEPT ![t] = "columns"]
    /\ UNCHANGED <<config, tables, harness>>

\* A __call__ that computes self.columns in extend mode too.
CallColumnsAlways(t) == Columns(ParentOf(t), builder[t].model)

\* columns = self.columns if extends is None else []
CallColumns(t) ==
    IF extends[t] = NoTable
    THEN Columns(ParentOf(t), builder[t].model)
    ELSE <<>>

BuildColumns(t) ==
    /\ pc[t] = "columns"
    /\ columns' = [columns EXCEPT ![t] = CallColumns(t)]
    /\ pc' = [pc EXCEPT ![t] = "hook"]
    /\ UNCHANGED <<config, tables, builder, extends, result, found, nbuilds,
                   hookCalls, added, before, harness>>

\* self.manager.plugins.after_build_version_table_columns(self, columns)
Hook(t) ==
    /\ pc[t] = "hook"
    /\ \E h \in HookEffects :
        /\ columns' = [columns EXCEPT ![t] =
                          (IF h.alter THEN Altered(@) ELSE @) \o h.add]
        /\ added' = [added EXCEPT ![t] = h.add]
    /\ hookCalls' = [hookCalls EXCEPT ![t] = @ + 1]
    /\ pc' = [pc EXCEPT ![t] = "register"]
    /\ UNCHANGED <<config, tables, builder, extends, result, found, nbuilds,
                   before, harness>>

\* A __call__ that names the table by the template in extend mode too.
NameArgFromTemplate(t) == TableName(ParentOf(t), builder[t].model)

\* A __call__ that passes self.columns again, not the list the hook was given.
ColumnArgsRecomputed(t) == CallColumns(t)

\* A __call__ that always asks to extend an existing table.
ExtendExistingAlways(t) == TRUE

\* The arguments of the sa.schema.Table call.
NameArg(t) ==
    IF extends[t] # NoTable THEN extends[t]
    ELSE TableName(ParentOf(t), builder[t].model)

MetadataArg(t) == ParentOf(t).metadata

ColumnArgs(t) == columns[t]

ExtendExisting(t) == extends[t] # NoTable

\* return sa.schema.Table(...), with nothing running in between.
Register(t) ==
    /\ pc[t] = "register"
    /\ LET m == MetadataArg(t)
           r == Table(tables[m], NameArg(t) \in DOMAIN tables[m], NameArg(t),
                      ColumnArgs(t), ExtendExisting(t))
       IN  /\ tables' = [tables EXCEPT ![m] = r.tables]
           /\ result' = [result EXCEPT ![t] = r.result]
    /\ pc' = [pc EXCEPT ![t] = "done"]
    /\ UNCHANGED <<config, builder, extends, columns, found, nbuilds,
                   hookCalls, added, before, harness>>

\* Builds run one after the other.
Build(t) ==
    \/ \E p \in DOMAIN ParentTables, m \in Models :
          \E e \in {NoTable} \cup DOMAIN tables[ParentTables[p].metadata] :
             Construct(t, p, m, e)
    \/ BuildColumns(t)
    \/ Hook(t)
    \/ Register(t)

Next == Build(1)

Spec == Init /\ [][Next]_vars

----------------------------------------------------------------------------
(* reflect_column on its own, for every column *)

ReflectOptionSets ==
    [table_name : {<<"%s", "_version">>},
     transaction_column_name : {"transaction_id", "tx_id"},
     end_transaction_column_name : {"end_transaction_id"},
     operation_type_column_name : {"operation_type"},
     exclude : {{}},
     strategy : {"flat"}]

InitReflect ==
    /\ options \in ReflectOptionSets
    /\ versioned = [strategy |-> None]
    /\ policy = {}
    /\ NoBuilds
    /\ rin \in [column : AllColumns, model : Models]
    /\ rstore = [src |-> rin.column, cpy |-> rin.column]
    /\ rref = None

\* column_copy = self.reflect_column(column)
ReflectCall ==
    /\ rref = None
    /\ LET r == ReflectColumn(rin.column, rin.model)
       IN  /\ rstore' = r.store
           /\ rref' = r.ref
    /\ UNCHANGED <<config, tables, pc, builder, extends, columns, result,
                   found, nbuilds, hookCalls, added, before, rin>>

NextReflect == ReflectCall

SpecReflect == InitReflect /\ [][NextReflect]_vars

----------------------------------------------------------------------------
(* Build calls of several threads on the same catalogs *)

InitConcurrent ==
    /\ options \in {o \in OptionSets : o.table_name = <<"%s", "_version">>
                                        /\ o.exclude = {}}
    /\ versioned = [strategy |-> None]
    /\ policy = {}
    /\ NoBuilds
    /\ IdleHarness

\* Table(...) looks the name up in the catalog ...
RegisterLookup(t) ==
    /\ pc[t] = "register"
    /\ found' = [found EXCEPT ![t] = NameArg(t) \in DOMAIN tables[MetadataArg(t)]]
    /\ pc' = [pc EXCEPT ![t] = "insert"]
    /\ UNCHANGED <<config, tables, builder, extends, columns, result, nbuilds,
                   hookCalls, added, before, harness>>

\* ... and then acts on what it saw; no lock is held in between.
RegisterInsert(t) ==
    /\ pc[t] = "insert"
    /\ LET m == MetadataArg(t)
           r == Table(tables[m], found[t], NameArg(t), ColumnArgs(t),
                      ExtendExisting(t))
       IN  /\ tables' = [tables EXCEPT ![m] = r.tables]
           /\ result' = [result EXCEPT ![t] = r.result]
    /\ pc' = [pc EXCEPT ![t] = "done"]
    /\ UNCHANGED <<config, builder, extends, columns, found, nbuilds,
                   hookCalls, added, before, harness>>

ConcurrentBuild(t) ==
    \/ \E p \in DOMAIN ParentTables, m \in Models :
          \E e \in {NoTable} \cup DOMAIN tables[ParentTables[p].metadata] :
             Construct(t, p, m, e)
    \/ BuildColumns(t)
    \/ Hook(t)
    \/ RegisterLookup(t)
    \/ RegisterInsert(t)

NextConcurrent == \E t \in Threads : ConcurrentBuild(t)

SpecConcurrent == InitConcurrent /\ [][NextConcurrent]_vars

----------------------------------------------------------------------------
(* Properties *)

ModelOf(t) == builder[t].model
Normal(t) == extends[t] = NoTable
Returned(t) == pc[t] = "done" /\ result[t].raised = None
KeyCount(cols, key) == Cardinality({i \in DOMAIN cols : cols[i].key = key})
TransactionName(t) ==
    IF ModelOf(t) # None /\ "transaction_column_name" \in DOMAIN versioned
    THEN versioned.transaction_column_name
    ELSE options.transaction_column_name
Validity(t) ==
    IF ModelOf(t) # None /\ versioned.strategy # None
    THEN versioned.strategy = "validity"
    ELSE options.strategy = "validity"

\* The configured name template with the parent table's name substituted.
SubstitutedName(t) ==
    IF options.table_name = <<"%s", "_version">>
    THEN ParentOf(t).name \o <<"_version">>
    ELSE <<"v_">> \o ParentOf(t).name

\* C1: the column list a normal-mode build hands to table registration has
\* exactly one column keyed by transaction_column_name, and every registered
\* version table has exactly one such column, also after extend-mode builds.
C1_OneTransactionColumn ==
    /\ \A t \in Threads :
          pc[t] = "register" /\ Normal(t)
             => KeyCount(ColumnArgs(t), TransactionName(t)) = 1
    /\ \A m \in Metadatas : \A n \in DOMAIN tables[m] :
          KeyCount(tables[m][n], options.transaction_column_name) = 1

\* C2: the list a normal-mode build assembles, before the hook runs, ends
\* with the transaction column (primary key, non-null, indexed,
\* autoincrement off), then the end-transaction column (nullable, indexed)
\* exactly when the strategy is validity, then the operation-type column
\* (non-null, indexed) as the last element.
C2_TrailingColumns ==
    \A t \in Threads :
       pc[t] = "hook" /\ Normal(t) =>
          LET cols == columns[t]
              n == Len(cols)
              k == IF Validity(t) THEN n - 2 ELSE n - 1
          IN  /\ k >= 1
              /\ cols[n].key = options.operation_type_column_name
              /\ ~cols[n].nullable /\ cols[n].index
              /\ cols[k].key = TransactionName(t)
              /\ cols[k].primary_key /\ ~cols[k].nullable /\ cols[k].index
              /\ cols[k].autoincrement = "false"
              /\ Validity(t) =>
                    /\ cols[n - 1].key = options.end_transaction_column_name
                    /\ cols[n - 1].nullable /\ cols[n - 1].index
              /\ KeyCount(cols, options.end_transaction_column_name)
                    = IF Validity(t) THEN 1 ELSE 0

C2_Witness ==
    \E t \in Threads :
       /\ pc[t] = "hook" /\ Normal(t) /\ Validity(t)
       /\ options.strategy = "flat"
       /\ Len(columns[t]) >= 3

\* Whether the exclusion rule excludes the parent column for build t.
C3_Excluded(t, column) ==
    IF ModelOf(t) # None THEN column.name \in policy
    ELSE column.name \in options.exclude

C4_TableName ==
    \A t \in Threads :
       Returned(t) =>
          /\ result[t].table = IF Normal(t) THEN SubstitutedName(t) ELSE extends[t]
          /\ result[t].table \in DOMAIN tables[ParentOf(t).metadata]
          /\ \A m \in Metadatas \ {ParentOf(t).metadata} :
                tables[m] = before[t][m]

C4_Witness ==
    \E t \in Threads :
       /\ Returned(t) /\ ~Normal(t)
       /\ result[t].table # SubstitutedName(t)
       /\ result[t].table \in DOMAIN tables[ParentOf(t).metadata]

\* C5: a normal-mode build whose resolved name is already registered in the
\* catalog ends in an error, and leaves every catalog as it was.
C5_ConflictReported ==
    \A t \in Threads :
       /\ pc[t] = "done" /\ Normal(t)
       /\ SubstitutedName(t) \in DOMAIN before[t][ParentOf(t).metadata]
       => /\ result[t].raised = InvalidRequestError
          /\ tables = before[t]

C5_Witness ==
    \E t \in Threads :
       /\ pc[t] = "done" /\ Normal(t)
       /\ SubstitutedName(t) \in DOMAIN before[t][ParentOf(t).metadata]
       /\ result[t].raised = InvalidRequestError

\* C6: an extend-mode build contributes no column of its own: the returned
\* table is the existing one, under its name, its previous columns unchanged,
\* plus only columns the hook added in this call; no table is added.
C6_ExtendAddsOnlyHookColumns ==
    \A t \in Threads :
       ~Normal(t) =>
          /\ pc[t] = "hook" => columns[t] = <<>>
          /\ pc[t] = "done" =>
                LET m == ParentOf(t).metadata
                    old == before[t][m][extends[t]]
                    new == tables[m][extends[t]]
                IN  /\ result[t] = [raised |-> None, table |-> extends[t]]
                    /\ \A mm \in Metadatas :
                          /\ DOMAIN tables[mm] = DOMAIN before[t][mm]
                          /\ \A n \in DOMAIN tables[mm] :
                                (mm # m \/ n # extends[t])
                                   => tables[mm][n] = before[t][mm][n]
                    /\ Len(new) >= Len(old)
                    /\ \A i \in 1..Len(old) : new[i] = old[i]
                    /\ \A i \in (Len(old) + 1)..Len(new) :
                          \E j \in DOMAIN added[t] : new[i] = added[t][j]

C6_Witness ==
    \E t \in Threads :
       /\ ~Normal(t) /\ pc[t] = "done"
       /\ added[t] # <<>>
       /\ Len(tables[ParentOf(t).metadata][extends[t]])
             > Len(before[t][ParentOf(t).metadata][extends[t]])

\* The table holds every column of the list under its key, and holds the
\* list's last column of each key as it is.
C7_Carries(cols, tab) ==
    \A i \in DOMAIN cols :
       \E j \in DOMAIN tab :
          /\ tab[j].key = cols[i].key
          /\ (\A i2 \in DOMAIN cols : i2 > i => cols[i2].key # cols[i].key)
                => tab[j] = cols[i]

\* C7: in every build call the hook runs exactly once, after the list is
\* computed and before the table is registered, and the registered table
\* carries the list as the hook left it.
C7_HookOnceBeforeRegistration ==
    \A t \in Threads :
       /\ pc[t] \in {"columns", "hook"} => hookCalls[t] = 0
       /\ pc[t] \in {"register", "done"} => hookCalls[t] = 1
       /\ pc[t] \in {"columns", "hook", "register"} => tables = before[t]
       /\ Returned(t) =>
             C7_Carries(columns[t],
                        tables[ParentOf(t).metadata][result[t].table])

C7_Witness ==
    \E t \in Threads :
       /\ Returned(t) /\ Normal(t)
       /\ hookCalls[t] = 1
       /\ added[t] # <<>>
       /\ \E j \in DOMAIN tables[ParentOf(t).metadata][result[t].table] :
             tables[ParentOf(t).metadata][result[t].table][j] = added[t][1]

\* C8: concurrent build calls on one catalog are serialized at registration:
\* two normal-mode builds that resolve to the same name are never both
\* registered successfully, and no registered table mixes two calls' columns.
C8_RegistrationSerialized ==
    \A t1, t2 \in Threads :
       /\ t1 # t2
       /\ Normal(t1) /\ Normal(t2)
       /\ pc[t1] = "done" /\ pc[t2] = "done"
       /\ ParentOf(t1).metadata = ParentOf(t2).metadata
       /\ SubstitutedName(t1) = SubstitutedName(t2)
       => /\ ~(result[t1].raised = None /\ result[t2].raised = None)
          /\ \/ tables[ParentOf(t1).metadata][SubstitutedName(t1)]
                   = AddColumns(<<>>, columns[t1])
             \/ tables[ParentOf(t1).metadata][SubstitutedName(t1)]
                   = AddColumns(<<>>, columns[t2])

\* C9: reflect_column returns a non-null column whenever the column's name
\* is transaction_column_name, primary key or not; any other column comes
\* back nullable unless it is a primary key, which keeps its nullability.
C9_Nullability ==
    rref \notin {None, "done"} =>
       LET out == rstore[rref]
           column == rin.column
       IN  IF column.name = options.transaction_column_name
           THEN ~out.nullable
           ELSE IF column.primary_key
                THEN out.nullable = column.nullable
                ELSE out.nullable

\* C10: the column reflect_column returns has uniqueness off, no onupdate
\* trigger and autoincrement disabled, and is a copy: the parent's column
\* has the same attribute values after the call as before it.
C10_SanitizedCopy ==
    rref \notin {None, "done"} =>
       /\ ~rstore[rref].unique
       /\ rstore[rref].onupdate = None
       /\ rstore[rref].autoincrement = "false"
       /\ rref # "src"
       /\ rstore.src = rin.column

C10_Witness ==
    /\ rref \notin {None, "done"}
    /\ rin.column.unique
    /\ rin.column.onupdate = "now"
    /\ rin.column.autoincrement = "auto"
    /\ rin.model # None /\ rin.column.name = "amount"
    /\ rstore[rref].key = "total"
    /\ rstore.src.key = "amount"

====
